---- MODULE Spec2Model ----
(***************************************************************************)
(* Model of batch_creator.py: the BatchCreator accumulator of OpenAI Batch *)
(* API requests and the .jsonl file it writes.                             *)
(*                                                                         *)
(* A Python value is a record tagged with its type.  A str is a sequence   *)
(* of chunks; a chunk is a run of plain ASCII characters or one special    *)
(* character (quote, backslash, newline, or a non-ASCII code point written *)
(* "U+XXXX").  A dict is the sequence of its <<key, value>> items in       *)
(* insertion order.  A file is the sequence of chunks written to it, the   *)
(* line terminator being the chunk "\n".                                   *)
(***************************************************************************)
EXTENDS Integers, Sequences, FiniteSets, TLC

VARIABLES model, reasoning_effort, json_schema, system_prompt, entries,
          files, call, raised, returned, calls, cleared, old_files

config == <<model, reasoning_effort, json_schema, system_prompt>>
vars == <<model, reasoning_effort, json_schema, system_prompt, entries,
          files, call, raised, returned, calls, cleared, old_files>>

\* the most entries the accumulator is driven to hold
MaxEntries == 2

----------------------------------------------------------------------------
\* Python values

PyStr(chunks) == [type |-> "str", val |-> chunks]
PyInt(n) == [type |-> "int", val |-> n]
PyBytes(chunks) == [type |-> "bytes", val |-> chunks]
PySet(items) == [type |-> "set", val |-> items]
PyList(items) == [type |-> "list", val |-> items]
PyDict(items) == [type |-> "dict", val |-> items]
None == [type |-> "NoneType", val |-> <<>>]

\* the seed every request carries
Seed == 334

\* key in d
HasKey(d, key) == \E i \in 1..Len(d.val) : d.val[i][1] = key

\* d[key]
GetItem(d, key) ==
  LET i == CHOOSE j \in 1..Len(d.val) : d.val[j][1] = key IN d.val[i][2]

\* d[key] = value: a new key goes last, an old key keeps its place
SetItem(d, key, value) ==
  IF HasKey(d, key)
  THEN PyDict([i \in 1..Len(d.val) |->
                 IF d.val[i][1] = key THEN <<key, value>> ELSE d.val[i]])
  ELSE PyDict(Append(d.val, <<key, value>>))

\* the constructor arguments the accumulator is built from
Configs ==
  { [model |-> PyStr(<<"gpt-test">>), reasoning_effort |-> PyStr(<<"low">>),
     json_schema |-> None, system_prompt |-> PyStr(<<"You are helpful.">>)],
    [model |-> PyStr(<<"o4-mini">>), reasoning_effort |-> PyStr(<<"medium">>),
     json_schema |-> PyDict(<<>>), system_prompt |-> PyStr(<<>>)],
    [model |-> PyStr(<<"gpt-test">>), reasoning_effort |-> PyStr(<<"high">>),
     json_schema |-> PyDict(<< <<"name", PyStr(<<"s">>)>>, <<"strict", None>> >>),
     system_prompt |-> PyStr(<<"Be ", "\"", "brief", "\"">>)],
    [model |-> PyStr(<<"gpt-test">>), reasoning_effort |-> PyStr(<<"low">>),
     json_schema |-> PyDict(<< <<"required", PySet(<<>>)>> >>),
     system_prompt |-> PyStr(<<"You are helpful.">>)] }

\* the (index, user_prompt) arguments add_entry is called with
AddInputs ==
  { [index |-> PyStr(<<"r1">>), user_prompt |-> PyStr(<<"Hello">>)],
    [index |-> PyStr(<<"r2">>), user_prompt |-> PyStr(<<"a", "\n", "b", "\\", "U+00E9">>)],
    [index |-> PyStr(<<"r1">>), user_prompt |-> PyBytes(<<"raw">>)] }

\* the batch identifiers save_to_file is called with
FileIds == {"abc"}

\* the indexes preview_entry is called with
Indexes == (0 - (MaxEntries + 1)) .. (MaxEntries + 1)

----------------------------------------------------------------------------
\* json.dumps(entry, ensure_ascii=False)

RECURSIVE Flatten(_)
Flatten(seqs) ==
  IF seqs = <<>> THEN <<>> ELSE Head(seqs) \o Flatten(Tail(seqs))

\* an escape that lets a newline through
EscapeChunkRawNewline(c) ==
  IF c = "\"" THEN <<"\\\"">>
  ELSE IF c = "\\" THEN <<"\\\\">>
  ELSE <<c>>

\* the JSON escape of one chunk of a str; a non-ASCII chunk is emitted as it is
EscapeChunk(c) ==
  IF c = "\"" THEN <<"\\\"">>
  ELSE IF c = "\\" THEN <<"\\\\">>
  ELSE IF c = "\n" THEN <<"\\n">>
  ELSE <<c>>

DumpsStr(chunks) ==
  <<"\"">> \o Flatten([i \in 1..Len(chunks) |-> EscapeChunk(chunks[i])]) \o <<"\"">>

\* json.dumps raises TypeError on a value of a type it cannot encode
RECURSIVE Serializable(_)
Serializable(v) ==
  CASE v.type \in {"str", "int", "NoneType"} -> TRUE
    [] v.type = "list" -> \A i \in 1..Len(v.val) : Serializable(v.val[i])
    [] v.type = "dict" -> \A i \in 1..Len(v.val) : Serializable(v.val[i][2])
    [] OTHER -> FALSE

RECURSIVE DumpsValue(_)
DumpsValue(v) ==
  CASE v.type = "str" -> DumpsStr(v.val)
    [] v.type = "int" -> <<ToString(v.val)>>
    [] v.type = "NoneType" -> <<"null">>
    [] v.type = "list" ->
         <<"[">>
         \o Flatten([i \in 1..Len(v.val) |->
               (IF i > 1 THEN <<", ">> ELSE <<>>) \o DumpsValue(v.val[i])])
         \o <<"]">>
    [] v.type = "dict" ->
         <<"{">>
         \o Flatten([i \in 1..Len(v.val) |->
               (IF i > 1 THEN <<", ">> ELSE <<>>)
               \o DumpsStr(<<v.val[i][1]>>) \o <<": ">> \o DumpsValue(v.val[i][2])])
         \o <<"}">>

dumps(entry) == DumpsValue(entry)

----------------------------------------------------------------------------
\* BatchCreator

NoException == [type |-> "None", msg |-> <<>>]

\* Path(__file__).parent.parent / f"data/batches/batch_{id}.jsonl"
file_path(id) == <<"data/batches/batch_", id, ".jsonl">>

\* a path with no file, and a file holding lines of an earlier run
NoFile == [exists |-> FALSE, content |-> <<>>]
StaleFile == [exists |-> TRUE, content |-> <<"stale", "\n", "stale", "\n", "stale", "\n">>]

Init ==
  /\ \E c \in Configs :
       /\ model = c.model
       /\ reasoning_effort = c.reasoning_effort
       /\ json_schema = c.json_schema
       /\ system_prompt = c.system_prompt
  /\ entries = <<>>
  /\ files \in [{file_path(id) : id \in FileIds} -> {NoFile, StaleFile}]
  /\ call = [op |-> "__init__"]
  /\ raised = NoException
  /\ returned = None
  /\ calls = <<>>
  /\ cleared = FALSE
  /\ old_files = files

\* add_entry(index, user_prompt)

\* a truthiness test in place of the test against None
WithResponseFormatIfTruthy(body) ==
  IF json_schema # None /\ json_schema.val # <<>>
  THEN SetItem(body, "response_format",
               PyDict(<< <<"type", PyStr(<<"json_schema">>)>>,
                         <<"json_schema", json_schema>> >>))
  ELSE body

\* response_format is added only if a json_schema was provided
WithResponseFormat(body) ==
  IF json_schema # None
  THEN SetItem(body, "response_format",
               PyDict(<< <<"type", PyStr(<<"json_schema">>)>>,
                         <<"json_schema", json_schema>> >>))
  ELSE body

Body(user_prompt) ==
  WithResponseFormat(
    PyDict(<< <<"model", model>>,
              <<"seed", PyInt(Seed)>>,
              <<"reasoning_effort", reasoning_effort>>,
              <<"messages",
                PyList(<< PyDict(<< <<"role", PyStr(<<"system">>)>>,
                                    <<"content", system_prompt>> >>),
                          PyDict(<< <<"role", PyStr(<<"user">>)>>,
                                    <<"content", user_prompt>> >>) >>)>> >>))

Entry(index, user_prompt) ==
  PyDict(<< <<"custom_id", index>>,
            <<"method", PyStr(<<"POST">>)>>,
            <<"url", PyStr(<<"/v1/chat/completions">>)>>,
            <<"body", Body(user_prompt)>> >>)

\* an add_entry that skips an identifier already held
add_entry_unique(index, user_prompt) ==
  /\ Len(entries) < MaxEntries
  /\ entries' = IF \E i \in 1..Len(entries) : GetItem(entries[i], "custom_id") = index
                THEN entries
                ELSE Append(entries, Entry(index, user_prompt))
  /\ call' = [op |-> "add_entry", index |-> index, user_prompt |-> user_prompt]
  /\ raised' = NoException
  /\ returned' = None
  /\ calls' = Append(calls, [index |-> index, user_prompt |-> user_prompt])
  /\ old_files' = files
  /\ UNCHANGED <<config, files, cleared>>

add_entry(index, user_prompt) ==
  /\ Len(entries) < MaxEntries
  /\ entries' = Append(entries, Entry(index, user_prompt))
  /\ call' = [op |-> "add_entry", index |-> index, user_prompt |-> user_prompt]
  /\ raised' = NoException
  /\ returned' = None
  /\ calls' = Append(calls, [index |-> index, user_prompt |-> user_prompt])
  /\ old_files' = files
  /\ UNCHANGED <<config, files, cleared>>

\* save_to_file(id)

\* open(file_path, 'a'): the old content is kept
OpenForAppending(file) == [exists |-> TRUE, content |-> file.content]

\* open(file_path, 'w', encoding='utf-8') creates the file or truncates it
OpenForWriting(file) == [exists |-> TRUE, content |-> <<>>]

\* f.write(json.dumps(entry, ensure_ascii=False) + '\n')
Write(file, entry) ==
  [exists |-> TRUE, content |-> file.content \o dumps(entry) \o <<"\n">>]

\* a loop that skips an entry json.dumps rejects and goes on
RECURSIVE WriteEntriesSkipping(_, _)
WriteEntriesSkipping(file, es) ==
  IF es = <<>> THEN file
  ELSE IF ~Serializable(Head(es)) THEN WriteEntriesSkipping(file, Tail(es))
  ELSE WriteEntriesSkipping(Write(file, Head(es)), Tail(es))

\* the loop over self.entries, left at the first entry json.dumps rejects;
\* leaving the with block closes the file with what was written
RECURSIVE WriteEntries(_, _)
WriteEntries(file, es) ==
  IF es = <<>> \/ ~Serializable(Head(es)) THEN file
  ELSE WriteEntries(Write(file, Head(es)), Tail(es))

save_to_file(id) ==
  /\ call' = [op |-> "save_to_file", id |-> id]
  /\ returned' = None
  /\ old_files' = files
  /\ \E opened \in BOOLEAN :
       IF ~opened
       THEN /\ raised' = [type |-> "OSError", msg |-> <<"No such file or directory">>]
            /\ files' = files
       ELSE /\ files' = [files EXCEPT ![file_path(id)] =
                           WriteEntries(OpenForWriting(files[file_path(id)]), entries)]
            /\ raised' = IF \A i \in 1..Len(entries) : Serializable(entries[i])
                         THEN NoException
                         ELSE [type |-> "TypeError", msg |-> <<"is not JSON serializable">>]
  /\ UNCHANGED <<config, entries, calls, cleared>>

\* a clear_entries that drops the last entry only
clear_entries_pop ==
  /\ entries' = IF entries = <<>> THEN <<>> ELSE SubSeq(entries, 1, Len(entries) - 1)
  /\ call' = [op |-> "clear_entries"]
  /\ raised' = NoException
  /\ returned' = None
  /\ calls' = <<>>
  /\ cleared' = TRUE
  /\ old_files' = files
  /\ UNCHANGED <<config, files>>

\* clear_entries()
clear_entries ==
  /\ entries' = <<>>
  /\ call' = [op |-> "clear_entries"]
  /\ raised' = NoException
  /\ returned' = None
  /\ calls' = <<>>
  /\ cleared' = TRUE
  /\ old_files' = files
  /\ UNCHANGED <<config, files>>

\* get_entry_count()
get_entry_count ==
  /\ call' = [op |-> "get_entry_count"]
  /\ raised' = NoException
  /\ returned' = PyInt(Len(entries))
  /\ old_files' = files
  /\ UNCHANGED <<config, entries, files, calls, cleared>>

\* preview_entry(index)

\* an indexing that rejects every negative index
ListIndexInRangeNonNegative(list, index) == 0 <= index /\ index < Len(list)

\* an indexing that counts every index from the end
ListGetItemFromEnd(list, index) ==
  IF index < 0 THEN list[Len(list) + index + 1] ELSE list[Len(list) - index]

\* list.__getitem__: a negative index counts from the end
ListIndexInRange(list, index) == 0 - Len(list) <= index /\ index < Len(list)
ListGetItem(list, index) ==
  IF index < 0 THEN list[Len(list) + index + 1] ELSE list[index + 1]

\* the guard of preview_entry
OutOfRange(index) == index >= Len(entries)

\* a message that leaves the count out
OutOfRangeMessageNoCount(index) ==
  <<"Index ", ToString(index), " is out of range.">>

\* f"Index {index} is out of range. Only {len(self.entries)} entries exist."
OutOfRangeMessage(index) ==
  <<"Index ", ToString(index), " is out of range. Only ",
    ToString(Len(entries)), " entries exist.">>

\* a preview_entry that clamps a large index to the last entry
preview_entry_clamped(index) ==
  /\ call' = [op |-> "preview_entry", index |-> index]
  /\ old_files' = files
  /\ IF OutOfRange(index) /\ entries = <<>>
     THEN /\ raised' = [type |-> "IndexError", msg |-> OutOfRangeMessage(index)]
          /\ returned' = None
     ELSE IF OutOfRange(index)
     THEN /\ raised' = NoException
          /\ returned' = entries[Len(entries)]
     ELSE IF ~ListIndexInRange(entries, index)
     THEN /\ raised' = [type |-> "IndexError", msg |-> <<"list index out of range">>]
          /\ returned' = None
     ELSE /\ raised' = NoException
          /\ returned' = ListGetItem(entries, index)
  /\ UNCHANGED <<config, entries, files, calls, cleared>>

preview_entry(index) ==
  /\ call' = [op |-> "preview_entry", index |-> index]
  /\ old_files' = files
  /\ IF OutOfRange(index)
     THEN /\ raised' = [type |-> "IndexError", msg |-> OutOfRangeMessage(index)]
          /\ returned' = None
     ELSE IF ~ListIndexInRange(entries, index)
     THEN /\ raised' = [type |-> "IndexError", msg |-> <<"list index out of range">>]
          /\ returned' = None
     ELSE /\ raised' = NoException
          /\ returned' = ListGetItem(entries, index)
  /\ UNCHANGED <<config, entries, files, calls, cleared>>

Next ==
  \/ \E a \in AddInputs : add_entry(a.index, a.user_prompt)
  \/ \E id \in FileIds : save_to_file(id)
  \/ clear_entries
  \/ get_entry_count
  \/ \E index \in Indexes : preview_entry(index)

Spec == Init /\ [][Next]_vars

----------------------------------------------------------------------------
\* Reading a file back: its lines, and json.loads of a line

Terminated(content) == content = <<>> \/ content[Len(content)] = "\n"

\* the positions of the line terminators
Newlines(content) == {i \in 1..Len(content) : content[i] = "\n"}

\* the position of the k-th line terminator; 0 for k = 0
NewlineAt(content, k) ==
  IF k = 0 THEN 0
  ELSE CHOOSE i \in Newlines(content) :
         Cardinality({j \in Newlines(content) : j <= i}) = k

\* the lines of a file, each without its terminator
SplitLines(content) ==
  [k \in 1..Cardinality(Newlines(content)) |->
     SubSeq(content, NewlineAt(content, k - 1) + 1, NewlineAt(content, k) - 1)]

Unescape(c) ==
  IF c = "\\\"" THEN "\""
  ELSE IF c = "\\\\" THEN "\\"
  ELSE IF c = "\\n" THEN "\n"
  ELSE c

ParseInt(c) ==
  IF \E n \in 0..999 : ToString(n) = c
  THEN CHOOSE n \in 0..999 : ToString(n) = c
  ELSE 0 - 1

Invalid(p) == [val |-> PyStr(<<"<invalid>">>), next |-> p + 1]

RECURSIVE ScanString(_, _, _)
ScanString(t, p, acc) ==
  IF p > Len(t) THEN [val |-> <<"<invalid>">>, next |-> p + 1]
  ELSE IF t[p] = "\"" THEN [val |-> acc, next |-> p + 1]
  ELSE ScanString(t, p + 1, Append(acc, Unescape(t[p])))

RECURSIVE ParseValue(_, _)
RECURSIVE ParseMembers(_, _, _)
RECURSIVE ParseElements(_, _, _)

ParseValue(t, p) ==
  IF p > Len(t) THEN Invalid(p)
  ELSE CASE t[p] = "\"" ->
              LET s == ScanString(t, p + 1, <<>>)
              IN  [val |-> PyStr(s.val), next |-> s.next]
         [] t[p] = "{" -> ParseMembers(t, p + 1, <<>>)
         [] t[p] = "[" -> ParseElements(t, p + 1, <<>>)
         [] t[p] = "null" -> [val |-> None, next |-> p + 1]
         [] OTHER -> [val |-> PyInt(ParseInt(t[p])), next |-> p + 1]

ParseMembers(t, p, acc) ==
  IF p > Len(t) THEN Invalid(p)
  ELSE IF t[p] = "}" THEN [val |-> PyDict(acc), next |-> p + 1]
  ELSE LET q == IF t[p] = ", " THEN p + 1 ELSE p
           k == ScanString(t, q + 1, <<>>)
           v == ParseValue(t, k.next + 1)
       IN  IF k.val = <<>> THEN Invalid(p)
           ELSE ParseMembers(t, v.next, Append(acc, <<k.val[1], v.val>>))

ParseElements(t, p, acc) ==
  IF p > Len(t) THEN Invalid(p)
  ELSE IF t[p] = "]" THEN [val |-> PyList(acc), next |-> p + 1]
  ELSE LET q == IF t[p] = ", " THEN p + 1 ELSE p
           v == ParseValue(t, q)
       IN  ParseElements(t, v.next, Append(acc, v.val))

\* a line is one JSON document: it parses, and nothing follows the value
IsJsonDocument(line) == ParseValue(line, 1).next = Len(line) + 1
loads(line) == ParseValue(line, 1).val

\* what a file holds once the lines of es were written to it
ContentOf(es) == Flatten([i \in 1..Len(es) |-> dumps(es[i]) \o <<"\n">>])

\* e is the envelope of the request (c.index, c.user_prompt)
MatchesEnvelope(e, c) ==
  /\ e.type = "dict"
  /\ \A k \in {"custom_id", "method", "url", "body"} : HasKey(e, k)
  /\ GetItem(e, "custom_id") = c.index
  /\ GetItem(e, "method") = PyStr(<<"POST">>)
  /\ GetItem(e, "url") = PyStr(<<"/v1/chat/completions">>)
  /\ LET body == GetItem(e, "body")
     IN  /\ body.type = "dict"
         /\ \A k \in {"model", "seed", "reasoning_effort", "messages"} : HasKey(body, k)
         /\ GetItem(body, "model") = model
         /\ GetItem(body, "reasoning_effort") = reasoning_effort
         /\ GetItem(body, "seed") = PyInt(334)
         /\ LET messages == GetItem(body, "messages")
            IN  /\ messages.type = "list"
                /\ Len(messages.val) = 2
                /\ GetItem(messages.val[1], "role") = PyStr(<<"system">>)
                /\ GetItem(messages.val[1], "content") = system_prompt
                /\ GetItem(messages.val[2], "role") = PyStr(<<"user">>)
                /\ GetItem(messages.val[2], "content") = c.user_prompt

\* the message names the index and, after it, the count
CarriesIndexAndCount(msg, index, count) ==
  \E a, b \in 1..Len(msg) :
     a < b /\ msg[a] = ToString(index) /\ msg[b] = ToString(count)

CarriesNeither(msg, index, count) ==
  \A a \in 1..Len(msg) : msg[a] # ToString(index) /\ msg[a] # ToString(count)

----------------------------------------------------------------------------
\* The claims

Target == file_path(call.id)
SaveSucceeded == call.op = "save_to_file" /\ raised = NoException

\* C1: the count is the number of add_entry calls since construction or the
\* last clear_entries, get_entry_count returns it, and each add_entry grows
\* it by exactly one, also for an identifier already held.
C1_CountIsAddsSinceClear ==
  [][ /\ Len(entries') = Len(calls')
      /\ call'.op = "get_entry_count" => returned' = PyInt(Len(calls'))
      /\ call'.op = "add_entry" => Len(entries') = Len(entries) + 1 ]_vars

C1_Witness ==
  /\ call.op = "get_entry_count"
  /\ cleared
  /\ Len(calls) = 2
  /\ calls[1].index = calls[2].index
  /\ returned = PyInt(2)

\* C2: preview_entry(i) with 0 <= i < count returns the entry built by the
\* (i+1)-th add_entry since construction or the last clear, and leaves the
\* entries as they were.
C2_PreviewReturnsInsertionOrder ==
  [][ (call'.op = "preview_entry" /\ 0 <= call'.index /\ call'.index < Len(entries))
      => /\ raised' = NoException
         /\ returned' = entries[call'.index + 1]
         /\ MatchesEnvelope(returned', calls[call'.index + 1])
         /\ entries' = entries ]_vars

C2_Witness ==
  /\ call.op = "preview_entry"
  /\ call.index = 1
  /\ Len(entries) = 2
  /\ entries[1] # entries[2]
  /\ raised = NoException
  /\ returned = entries[2]

\* C3: preview_entry(index) fails with an out-of-range error for every
\* index >= count, preview_entry(count - 1) succeeds when count > 0, and a
\* failing call leaves the entries as they were.
C3_PreviewFailsFromCount ==
  [][ call'.op = "preview_entry"
      => /\ call'.index >= Len(entries) => raised'.type = "IndexError"
         /\ (Len(entries) > 0 /\ call'.index = Len(entries) - 1)
              => (raised' = NoException /\ returned' = entries[Len(entries)])
         /\ raised'.type = "IndexError" => entries' = entries ]_vars

C3_Witness ==
  /\ call.op = "preview_entry"
  /\ Len(entries) > 0
  /\ call.index = Len(entries)
  /\ raised.type = "IndexError"

\* C4: the body of every entry holds response_format if and only if the
\* accumulator was constructed with a schema; when present it is
\* {type: "json_schema", json_schema: the schema}, when the schema is absent
\* the key is absent.
C4_ResponseFormatIffSchema ==
  \A i \in 1..Len(entries) :
     LET body == GetItem(entries[i], "body")
     IN  /\ HasKey(body, "response_format") <=> json_schema # None
         /\ json_schema # None =>
              /\ Len(GetItem(body, "response_format").val) = 2
              /\ GetItem(GetItem(body, "response_format"), "type") = PyStr(<<"json_schema">>)
              /\ GetItem(GetItem(body, "response_format"), "json_schema") = json_schema

C4_Witness ==
  /\ Len(entries) = 2
  /\ json_schema = PyDict(<<>>)
  /\ HasKey(GetItem(entries[2], "body"), "response_format")

\* C5: a successful save_to_file with n entries held leaves a file of
\* exactly n lines, line k being the serialization of the k-th entry, a JSON
\* document that matches the envelope of the k-th add_entry call.
C5_SavedLinesAreEnvelopes ==
  SaveSucceeded =>
    LET file == files[Target]
        lines == SplitLines(file.content)
    IN  /\ file.exists
        /\ Terminated(file.content)
        /\ Len(lines) = Len(entries)
        /\ Len(calls) = Len(entries)
        /\ \A k \in 1..Len(lines) :
              /\ lines[k] = dumps(entries[k])
              /\ IsJsonDocument(lines[k])
              /\ loads(lines[k]) = entries[k]
              /\ MatchesEnvelope(loads(lines[k]), calls[k])

C5_Witness ==
  /\ SaveSucceeded
  /\ Len(entries) = 2
  /\ entries[1] # entries[2]
  /\ json_schema # None
  /\ Len(SplitLines(files[Target].content)) = 2

\* C6: after clear_entries and before any further add_entry the count is 0
\* and a successful save_to_file leaves an empty file, also over a file
\* that held content.
C6_ClearedSavesEmptyFile ==
  (cleared /\ calls = <<>>) =>
    /\ entries = <<>>
    /\ call.op = "get_entry_count" => returned = PyInt(0)
    /\ SaveSucceeded => files[Target] = [exists |-> TRUE, content |-> <<>>]

C6_Witness ==
  /\ cleared
  /\ calls = <<>>
  /\ SaveSucceeded
  /\ old_files[Target].content # <<>>
  /\ files[Target] = [exists |-> TRUE, content |-> <<>>]

\* C7 as stated: every preview_entry call that fails on an out-of-range
\* index, for any integer index, raises an error that carries the index and
\* the count.
C7_EveryFailureCarriesIndexAndCount ==
  (call.op = "preview_entry" /\ raised.type = "IndexError")
    => CarriesIndexAndCount(raised.msg, call.index, Len(entries))

\* C7 amended: a preview_entry call with index >= count raises an error
\* that carries the index and the count; a call with index < -count raises
\* the list's own out-of-range error, which carries neither.
C7_FailureFromCountCarriesIndexAndCount ==
  call.op = "preview_entry" =>
    /\ call.index >= Len(entries)
         => /\ raised.type = "IndexError"
            /\ CarriesIndexAndCount(raised.msg, call.index, Len(entries))
    /\ call.index < 0 - Len(entries)
         => /\ raised.type = "IndexError"
            /\ CarriesNeither(raised.msg, call.index, Len(entries))

C7_Witness ==
  /\ call.op = "preview_entry"
  /\ Len(entries) > 0
  /\ call.index = Len(entries) + 1
  /\ raised.type = "IndexError"
  /\ CarriesIndexAndCount(raised.msg, call.index, Len(entries))

\* C8: a successful save_to_file leaves the entries and the configuration
\* as they were, the file then holds the lines of the held entries whatever
\* it held before, and a second save right after the first leaves the file
\* as the first left it.
C8_SaveReadsEntriesAndOverwrites ==
  [][ (call'.op = "save_to_file" /\ raised' = NoException)
      => /\ entries' = entries
         /\ config' = config
         /\ files'[file_path(call'.id)] = [exists |-> TRUE, content |-> ContentOf(entries)]
         /\ (SaveSucceeded /\ call.id = call'.id) => files' = files ]_vars

C8_Witness ==
  /\ SaveSucceeded
  /\ Len(entries) = 2
  /\ old_files = files

\* C9 as stated: save_to_file either succeeds with every held entry written
\* or fails leaving the file as it was before the call.
C9_SaveIsAtomic ==
  [][ call'.op = "save_to_file"
      => IF raised' = NoException
         THEN files'[file_path(call'.id)].content = ContentOf(entries)
         ELSE files' = files ]_vars

\* C9 amended: a save_to_file that cannot open the file leaves it as it
\* was; one whose serialization fails on the k-th entry leaves the file
\* truncated to the lines of the first k-1 entries; a successful one leaves
\* the lines of every entry; the entries are as they were in each case.
C9_FailedSaveLeavesWrittenPrefix ==
  [][ call'.op = "save_to_file"
      => /\ entries' = entries
         /\ raised'.type \in {"None", "OSError", "TypeError"}
         /\ raised'.type = "None" =>
              files'[file_path(call'.id)] = [exists |-> TRUE, content |-> ContentOf(entries)]
         /\ raised'.type = "OSError" => files' = files
         /\ raised'.type = "TypeError" =>
              \E k \in 1..Len(entries) :
                 /\ ~Serializable(entries[k])
                 /\ \A j \in 1..(k - 1) : Serializable(entries[j])
                 /\ files'[file_path(call'.id)] =
                      [exists |-> TRUE, content |-> ContentOf(SubSeq(entries, 1, k - 1))] ]_vars

C9_Witness ==
  /\ call.op = "save_to_file"
  /\ raised.type = "TypeError"
  /\ Len(entries) = 2
  /\ old_files[Target] = StaleFile
  /\ Len(SplitLines(files[Target].content)) = 1

\* C10: with count entries held, preview_entry(i) for -count <= i < 0
\* returns the entry at position count + i, preview_entry(i) for i < -count
\* fails with an out-of-range error, and the entries are as they were.
C10_NegativeIndexCountsFromEnd ==
  [][ (call'.op = "preview_entry" /\ call'.index < 0)
      => /\ entries' = entries
         /\ call'.index >= 0 - Len(entries)
              => /\ raised' = NoException
                 /\ returned' = entries[Len(entries) + call'.index + 1]
         /\ call'.index < 0 - Len(entries) => raised'.type = "IndexError" ]_vars

C10_Witness ==
  /\ call.op = "preview_entry"
  /\ call.index = 0 - 2
  /\ Len(entries) = 2
  /\ entries[1] # entries[2]
  /\ raised = NoException
  /\ returned = entries[1]

====
